---- MODULE Spec2Model ----
(***************************************************************************)
(* Model of the assay-validation tools (validationtools.py,               *)
(* parse_simpcr.py): the count aggregator, the collapse engine, the        *)
(* temporal expansion and the small parsing / ratio helpers; and of the    *)
(* command-line pipeline (validate_assay.py) with its own collapse engine. *)
(*                                                                         *)
(* A pandas DataFrame is a sequence of rows (records); the row label of    *)
(* a frame with a RangeIndex is its position (label k is position k + 1).  *)
(* A float NaN is the value NaN below; it is compared only through Eq and  *)
(* Ne, which give it IEEE semantics (NaN equals nothing, itself included). *)
(***************************************************************************)
EXTENDS Integers, Sequences, FiniteSets, TLC

VARIABLES
    pc,            \* position of the driver: which call has returned
    ncbi,          \* the taxonomy database: known taxid -> parent taxid (0 for the root)
    target_taxid,  \* the assay target
    counts,        \* the count table handed to collapse_data
    collapsed,     \* what collapse_data returned
    recollapsed,   \* what collapse_data returned for its own output
    raised,        \* the exception that ended the last call, "none" if it returned
    data,          \* the isolate records (Virus Taxonomic ID, Collection year, Hit)
    years,         \* the years handed to expand_data
    combined_df,   \* what expand_data returned
    arg,           \* the argument of a helper call (get_accessions, datasets_get_year, get_ratio)
    ret,           \* what the helper returned
    csvfile        \* the table save_tsv wrote for the command-line pipeline, if it did

vars == <<pc, ncbi, target_taxid, counts, collapsed, recollapsed, raised,
          data, years, combined_df, arg, ret, csvfile>>

----------------------------------------------------------------------------
(* Bounds of the model *)

\* taxids 1..NumTaxa are in the taxonomy database
NumTaxa == 4
\* most rows of a count table
MaxRows == 3

\* taxids the database does not know
UnknownTaxids == {NumTaxa + 1, NumTaxa + 2}
KnownTaxids == 1..NumTaxa
Taxids == KnownTaxids \cup UnknownTaxids
\* the targets tried: every taxid, known or not
Targets == Taxids
\* Total and Hits of the input row of a taxid: 1 <= Total, Hits <= Total, and the Totals
\* (and the Hits) of different rows add up to a number that tells which rows were added
TotalOf(taxid) == 2 ^ (taxid - 1)
HitsOf(taxid) == TotalOf(taxid) \div 2

----------------------------------------------------------------------------
(* Values *)

\* np.nan
NaN == -2

\* == and != of Python on numbers that may be NaN
Eq(a, b) == a # NaN /\ b # NaN /\ a = b
Ne(a, b) == ~Eq(a, b)

Min(S) == CHOOSE x \in S : \A y \in S : x <= y

\* the function f on 1..n as a sequence whose entries are computed once
AsSeq(f) == <<>> \o f

RECURSIVE SumSeq(_)
SumSeq(s) == IF s = <<>> THEN 0 ELSE Head(s) + SumSeq(Tail(s))

\* s without the positions in drop
RECURSIVE DropPositions(_, _, _)
DropPositions(s, drop, k) ==
    IF k > Len(s) THEN <<>>
    ELSE IF k \in drop THEN DropPositions(s, drop, k + 1)
    ELSE <<s[k]>> \o DropPositions(s, drop, k + 1)

----------------------------------------------------------------------------
(* The taxonomy oracle (ete3 NCBITaxa) *)

\* every rooted tree on 1..NumTaxa, the root being 1 and a parent smaller than its child
Taxonomies ==
    {f \in [KnownTaxids -> 0..NumTaxa] :
        /\ f[1] = 0
        /\ \A t \in KnownTaxids \ {1} : f[t] \in 1..(t - 1)}

\* ncbi.get_lineage: the ancestor chain from the root to taxid; ValueError when the
\* database does not know taxid
RECURSIVE get_lineage(_)
get_lineage(taxid) ==
    IF taxid \notin DOMAIN ncbi THEN [raised |-> "ValueError", lineage |-> <<>>]
    ELSE IF ncbi[taxid] = 0 THEN [raised |-> "none", lineage |-> <<taxid>>]
    ELSE [raised |-> "none", lineage |-> Append(get_lineage(ncbi[taxid]).lineage, taxid)]

\* ncbi.get_taxid_translator([x])[x]: the name of x; KeyError when the translator has
\* no entry for x
get_taxid_translator(x) ==
    IF x \in DOMAIN ncbi THEN [raised |-> "none", name |-> <<"sci_name", x>>]
    ELSE [raised |-> "KeyError", name |-> <<>>]

\* try: ncbi.get_lineage(taxid) ... except ValueError
valid_taxid(taxid) == get_lineage(taxid).raised = "none"

\* lineage.index(target), 0-based; -1 when target is not in lineage
find_target(lineage, target) ==
    IF \E k \in 1..Len(lineage) : lineage[k] = target
    THEN Min({k \in 1..Len(lineage) : lineage[k] = target}) - 1
    ELSE -1

\* find_collapse_to with the out-of-subtree taxon kept under its own taxid
find_collapse_to_keep(taxid, target) ==
    IF ~valid_taxid(taxid) THEN NaN
    ELSE LET lineage == get_lineage(taxid).lineage
             index == find_target(lineage, target)
         IN  IF index = -1 THEN taxid
             ELSE IF index + 1 >= Len(lineage) THEN taxid
             ELSE lineage[(index + 1) + 1]

find_collapse_to(taxid, target) ==
    IF ~valid_taxid(taxid) THEN NaN
    ELSE LET lineage == get_lineage(taxid).lineage
             index == find_target(lineage, target)
         IN  IF index = -1 THEN -1
             ELSE IF index + 1 >= Len(lineage) THEN taxid
             ELSE lineage[(index + 1) + 1]

----------------------------------------------------------------------------
(* collapse_data *)

\* a row of a count table; Virus is empty until collapse_data names the row
Row(taxid, total, hits) ==
    [Virus |-> <<>>, taxid |-> taxid, Total |-> total, Hits |-> hits, Collapsed |-> NaN]

\* df["Collapsed TaxID"] = df["Virus Taxonomic ID"].apply(collapse_to)
apply_collapse_to(df, target) ==
    AsSeq([k \in 1..Len(df) |->
            [df[k] EXCEPT !.Collapsed = find_collapse_to(df[k].taxid, target)]])

\* df.at[matching_index, 'Total'] += row['Total'] without the Hits
add_total_only(df, matching_index, row) ==
    [df EXCEPT ![matching_index].Total = @ + row.Total]

\* df.at[matching_index, 'Total'] += row['Total']; df.at[matching_index, 'Hits'] += row['Hits']
add_to_matching(df, matching_index, row) ==
    [df EXCEPT ![matching_index].Total = @ + row.Total,
               ![matching_index].Hits = @ + row.Hits]

\* pd.concat([df, new_row], ignore_index=True), new_row being row under its collapse taxid
concat_new_row(df, row) ==
    Append(df, [row EXCEPT !.taxid = row.Collapsed])

(* One iteration of "for index, row in df.iterrows()".  st.df is the frame   *)
(* the name df is bound to, st.iter the frame object iterrows was called on  *)
(* (the same object until the first pd.concat rebinds df), st.del is         *)
(* rows_to_delete.  iterrows yields rows of the array it took when the loop  *)
(* began: a copy (snap) when the frame has several blocks, a view of the     *)
(* iterated frame when it has one; live tells which.                         *)
loop_body(st, k, snap, live) ==
    LET row == IF live THEN st.iter[k] ELSE snap[k]
    IN  IF Eq(row.Collapsed, -1)
        THEN [st EXCEPT !.del = @ \cup {k}]
        ELSE IF Ne(row.Collapsed, row.taxid)
        THEN LET matching_row == {j \in 1..Len(st.df) : Eq(st.df[j].taxid, row.Collapsed)}
             IN  IF matching_row # {}
                 THEN LET df2 == add_to_matching(st.df, Min(matching_row), row)
                      IN  [df |-> df2,
                           iter |-> IF st.rebound THEN st.iter ELSE df2,
                           rebound |-> st.rebound,
                           del |-> st.del \cup {k}]
                 ELSE [df |-> concat_new_row(st.df, row),
                       iter |-> st.iter,
                       rebound |-> TRUE,
                       del |-> st.del \cup {k}]
        ELSE st

RECURSIVE loop(_, _, _, _)
loop(st, k, snap, live) ==
    IF k > Len(snap) THEN st
    ELSE loop(loop_body(st, k, snap, live), k + 1, snap, live)

\* df.drop(rows_to_delete, inplace=True) without the inplace: nothing is dropped
drop_nothing(df, rows_to_delete) == df

\* df.drop(rows_to_delete, inplace=True)
drop(df, rows_to_delete) == DropPositions(df, rows_to_delete, 1)

HasNaN(r) == r.taxid = NaN \/ r.Total = NaN \/ r.Hits = NaN \/ r.Collapsed = NaN

\* df.dropna(inplace=True) without the inplace: nothing is dropped
dropna_nothing(df) == df

\* df.dropna(inplace=True)
dropna(df) == DropPositions(df, {k \in 1..Len(df) : HasNaN(df[k])}, 1)

\* the return value: the rows with the columns Virus, Virus Taxonomic ID, Hits, Total
\* or the exception raised by astype(int) / the name lookup
finish(df) ==
    IF \E k \in 1..Len(df) : df[k].taxid = NaN THEN [raised |-> "IntCastingNaNError", df |-> <<>>]
    ELSE IF \E k \in 1..Len(df) : get_taxid_translator(df[k].taxid).raised # "none"
    THEN [raised |-> "KeyError", df |-> <<>>]
    ELSE [raised |-> "none",
          df |-> AsSeq([k \in 1..Len(df) |->
                    [Virus |-> get_taxid_translator(df[k].taxid).name, taxid |-> df[k].taxid,
                     Hits |-> df[k].Hits, Total |-> df[k].Total]])]

collapse_data(df, target, live) ==
    LET df1 == apply_collapse_to(df, target)
        st == loop([df |-> df1, iter |-> df1, rebound |-> FALSE, del |-> {}], 1, df1, live)
    IN  finish(dropna(drop(st.df, st.del)))

\* the frame collapse_data returned, as a count table (its extra column Virus kept)
AsCounts(df) ==
    AsSeq([k \in 1..Len(df) |->
        [Virus |-> df[k].Virus, taxid |-> df[k].taxid, Total |-> df[k].Total,
         Hits |-> df[k].Hits, Collapsed |-> NaN]])

----------------------------------------------------------------------------
(* Driver of the collapse engine: a count table is collapsed, and the result *)
(* collapsed again with the same target.                                     *)

RECURSIVE Tables(_)
\* the count tables of n rows: distinct taxids, in any order
Tables(n) ==
    IF n = 0 THEN {<<>>}
    ELSE {Append(t, Row(x, TotalOf(x), HitsOf(x))) :
            t \in Tables(n - 1), x \in Taxids}

DistinctTaxids(df) == \A j, k \in 1..Len(df) : j # k => df[j].taxid # df[k].taxid

CountTables == UNION {{t \in Tables(n) : DistinctTaxids(t)} : n \in 0..MaxRows}

InitCollapse ==
    /\ pc = "start"
    /\ ncbi \in Taxonomies
    /\ target_taxid \in Targets
    /\ counts = <<>>
    /\ collapsed = <<>>
    /\ recollapsed = <<>>
    /\ raised = "none"
    /\ data = <<>>
    /\ years = <<>>
    /\ combined_df = <<>>
    /\ arg = <<>>
    /\ ret = <<>>
    /\ csvfile = [written |-> FALSE, df |-> <<>>]

\* collapse_data(df, target_taxid) is called on a count table
CollapseData ==
    /\ pc = "start"
    /\ \E df \in CountTables, live \in BOOLEAN :
         LET r == collapse_data(df, target_taxid, live)
         IN  /\ counts' = df
             /\ collapsed' = r.df
             /\ raised' = r.raised
    /\ pc' = "collapsed"
    /\ UNCHANGED <<ncbi, target_taxid, recollapsed, data, years, combined_df, arg, ret, csvfile>>

CollapseAgain ==
    /\ pc = "collapsed"
    /\ raised = "none"
    /\ \E live \in BOOLEAN :
         LET r == collapse_data(AsCounts(collapsed), target_taxid, live)
         IN  /\ recollapsed' = r.df
             /\ raised' = r.raised
    /\ pc' = "recollapsed"
    /\ UNCHANGED <<ncbi, target_taxid, counts, collapsed, data, years, combined_df, arg, ret, csvfile>>

NextCollapse == CollapseData \/ CollapseAgain

SpecCollapse == InitCollapse /\ [][NextCollapse]_vars

----------------------------------------------------------------------------
(* What the taxonomy says, read off the parent relation, for stating the   *)
(* properties of the collapse engine.                                       *)

\* a is t or an ancestor of t
RECURSIVE IsAncestorOrSelf(_, _)
IsAncestorOrSelf(a, t) ==
    /\ t \in DOMAIN ncbi
    /\ \/ a = t
       \/ ncbi[t] # 0 /\ IsAncestorOrSelf(a, ncbi[t])

InSubtree(t) == IsAncestorOrSelf(target_taxid, t)

IsDirectChild(c) == c \in DOMAIN ncbi /\ ncbi[c] = target_taxid

\* the taxid a taxon of the target's subtree is counted under
CollapseTarget(t) ==
    IF t = target_taxid THEN t
    ELSE CHOOSE c \in DOMAIN ncbi : ncbi[c] = target_taxid /\ IsAncestorOrSelf(c, t)

\* the input rows counted under c
RowsUnder(c) ==
    SelectSeq(counts, LAMBDA r : InSubtree(r.taxid) /\ CollapseTarget(r.taxid) = c)

RowsInSubtree == SelectSeq(counts, LAMBDA r : InSubtree(r.taxid))

TotalColumn(df) == [k \in 1..Len(df) |-> df[k].Total]
HitsColumn(df) == [k \in 1..Len(df) |-> df[k].Hits]
TaxidsOf(df) == {df[k].taxid : k \in 1..Len(df)}

\* the table without the row of taxid t
WithoutTaxid(df, t) == SelectSeq(df, LAMBDA r : r.taxid # t)

\* C1: every row that survives collapse_data(T, target) is the row of the target
\* or of a direct child of the target; no out-of-subtree, folded-away or unknown
\* taxon keeps a row.
C1_SurvivorsAreTargetOrChild ==
    pc = "collapsed" =>
        \A k \in 1..Len(collapsed) :
            \/ collapsed[k].taxid = target_taxid /\ target_taxid \in DOMAIN ncbi
            \/ IsDirectChild(collapsed[k].taxid)

\* a descendant was folded into a row created for its direct-child ancestor, while an
\* out-of-subtree row and an unknown row were removed
C1_Witness ==
    /\ pc = "collapsed"
    /\ \E k \in 1..Len(collapsed) :
          IsDirectChild(collapsed[k].taxid) /\ collapsed[k].taxid \notin TaxidsOf(counts)
    /\ \E k \in 1..Len(counts) :
          counts[k].taxid \in DOMAIN ncbi /\ ~InSubtree(counts[k].taxid)
    /\ \E k \in 1..Len(counts) : counts[k].taxid \notin DOMAIN ncbi

\* C2: collapse_data(T, target) has exactly one row per collapse target c of the
\* in-subtree input rows, whose Total and Hits are the sums over the input rows
\* counted under c; so the output sums equal the sums over the in-subtree input rows.
C2_OneRowPerTargetWithSums ==
    pc = "collapsed" =>
        /\ \A c \in Taxids \cup {NaN, -1} :
             LET src == RowsUnder(c)
                 out == SelectSeq(collapsed, LAMBDA r : r.taxid = c)
             IN  IF src = <<>> THEN out = <<>>
                 ELSE /\ Len(out) = 1
                      /\ out[1].Total = SumSeq(TotalColumn(src))
                      /\ out[1].Hits = SumSeq(HitsColumn(src))
        /\ TaxidsOf(collapsed) \subseteq Taxids
        /\ SumSeq(TotalColumn(collapsed)) = SumSeq(TotalColumn(RowsInSubtree))
        /\ SumSeq(HitsColumn(collapsed)) = SumSeq(HitsColumn(RowsInSubtree))

\* two rows were folded into a row the pass created, a third row was out of the subtree
C2_Witness ==
    /\ pc = "collapsed"
    /\ \E c \in Taxids :
          /\ c \notin TaxidsOf(counts)
          /\ Len(RowsUnder(c)) >= 2
          /\ c \in TaxidsOf(collapsed)
    /\ Len(RowsInSubtree) < Len(counts)

RowSet(df) == {df[k] : k \in 1..Len(df)}

\* C3: collapse_data is idempotent: collapsing its own output with the same target
\* gives the same rows (identifiers, Hits, Total).
C3_Idempotent ==
    pc = "recollapsed" =>
        /\ raised = "none"
        /\ RowSet(recollapsed) = RowSet(collapsed)
        /\ Len(recollapsed) = Len(collapsed)

\* the first pass folded and removed rows and left at least two
C3_Witness ==
    /\ pc = "recollapsed"
    /\ Len(collapsed) >= 2
    /\ Len(collapsed) < Len(counts)
    /\ \E c \in TaxidsOf(collapsed) : c \notin TaxidsOf(counts)

\* C4: a taxid t the taxonomy does not know does not abort collapse_data: the call
\* returns, no row of the output has an unknown taxid, and the output is what
\* collapse_data returns for the same table without t's row.
C4_UnknownTaxidOnlyDropsItsRow ==
    pc = "collapsed" =>
        /\ raised = "none"
        /\ TaxidsOf(collapsed) \subseteq DOMAIN ncbi
        /\ \A t \in TaxidsOf(counts) \ DOMAIN ncbi : \A live \in BOOLEAN :
             LET r == collapse_data(WithoutTaxid(counts, t), target_taxid, live)
             IN  r.raised = "none" /\ r.df = collapsed

\* two unknown taxids in the table, around a row that was folded
C4_Witness ==
    /\ pc = "collapsed"
    /\ Len(counts) = 3
    /\ counts[1].taxid \notin DOMAIN ncbi
    /\ counts[3].taxid \notin DOMAIN ncbi
    /\ Len(collapsed) = 1
    /\ collapsed[1].taxid # counts[2].taxid

----------------------------------------------------------------------------
(* count_data: the count aggregator *)

\* most isolate records handed to count_data
MaxRecords == 3

\* an isolate record: the columns Virus Taxonomic ID, Collection year and Hit of the
\* frame assess_data returns (Accession and Release year are not read downstream)
Record(taxid, year, hit) == [taxid |-> taxid, year |-> year, Hit |-> hit]

\* df.groupby(['Virus Taxonomic ID']): the group keys
group_keys(df) == {df[k].taxid : k \in 1..Len(df)}

\* the Hit column of the group of key
group(df, key) ==
    LET rows == SelectSeq(df, LAMBDA r : r.taxid = key)
    IN  AsSeq([k \in 1..Len(rows) |-> rows[k].Hit])

\* 'count': the entries of the group
agg_count(x) == Len(x)

\* the second aggregate written as a count of all entries
agg_hits_all(x) == Len(x)

\* lambda x: (x == True).sum()
agg_hits(x) == Len(SelectSeq(x, LAMBDA h : h = TRUE))

\* one row per group, in the order of the keys
RECURSIVE agg(_, _)
agg(df, keys) ==
    IF keys = {} THEN <<>>
    ELSE LET key == Min(keys)
         IN  <<Row(key, agg_count(group(df, key)), agg_hits(group(df, key)))>>
             \o agg(df, keys \ {key})

count_data(df) == agg(df, group_keys(df))

RECURSIVE Frames(_, _)
\* the frames of n records drawn from the record set R, in any order
Frames(n, R) ==
    IF n = 0 THEN {<<>>}
    ELSE {Append(f, r) : f \in Frames(n - 1, R), r \in R}

\* the records of the count driver, all collected in 2010
CountRecords == {Record(t, 2010, h) : t \in Taxids, h \in BOOLEAN}

\* a taxonomy for the drivers that do not consult it: the chain 1, 2, ..
ChainTaxonomy == [t \in KnownTaxids |-> t - 1]

InitCount ==
    /\ pc = "start"
    /\ ncbi = ChainTaxonomy
    /\ target_taxid = 1
    /\ counts = <<>>
    /\ collapsed = <<>>
    /\ recollapsed = <<>>
    /\ raised = "none"
    /\ data = <<>>
    /\ years = <<>>
    /\ combined_df = <<>>
    /\ arg = <<>>
    /\ ret = <<>>
    /\ csvfile = [written |-> FALSE, df |-> <<>>]

\* count_data(df) is called on a frame of isolate records
CountData ==
    /\ pc = "start"
    /\ \E df \in UNION {Frames(n, CountRecords) : n \in 0..MaxRecords} :
         /\ data' = df
         /\ counts' = count_data(df)
    /\ pc' = "counted"
    /\ UNCHANGED <<ncbi, target_taxid, collapsed, recollapsed, raised, years,
                   combined_df, arg, ret, csvfile>>

NextCount == CountData

SpecCount == InitCount /\ [][NextCount]_vars

\* the permutations of 1..n
Perms(n) == {f \in [1..n -> 1..n] : \A i, j \in 1..n : i # j => f[i] # f[j]}

\* C5: count_data returns exactly one row per taxid of the input, Total the number of
\* records of that taxid and Hits the number of those with Hit true; so Hits <= Total,
\* the Totals sum to the number of records, the order of the records does not matter
\* and the empty input gives the empty table.
C5_CountPerTaxid ==
    pc = "counted" =>
        /\ \A t \in Taxids \cup {NaN} :
             LET of_t == {k \in 1..Len(data) : data[k].taxid = t}
                 rows == {k \in 1..Len(counts) : counts[k].taxid = t}
             IN  /\ Cardinality(rows) = IF of_t = {} THEN 0 ELSE 1
                 /\ \A k \in rows :
                      /\ counts[k].Total = Cardinality(of_t)
                      /\ counts[k].Hits = Cardinality({j \in of_t : data[j].Hit})
        /\ TaxidsOf(counts) \subseteq Taxids
        /\ \A k \in 1..Len(counts) : counts[k].Hits <= counts[k].Total
        /\ SumSeq(TotalColumn(counts)) = Len(data)
        /\ \A p \in Perms(Len(data)) :
             count_data([k \in 1..Len(data) |-> data[p[k]]]) = counts
        /\ data = <<>> => counts = <<>>

\* three records, two of one taxid with different Hit, the larger taxid first
C5_Witness ==
    /\ pc = "counted"
    /\ Len(data) = 3
    /\ data[1].taxid > data[2].taxid
    /\ data[3].taxid = data[1].taxid
    /\ data[1].Hit /\ ~data[3].Hit
    /\ Len(counts) = 2

----------------------------------------------------------------------------
(* expand_data: the temporal expansion *)

\* most isolate records handed to expand_data
MaxExpandRecords == 2
\* most years handed to expand_data
MaxYears == 2

\* data[data["Collection year"] <= yr] with == in place of <=
filter_year_only(df, yr) == SelectSeq(df, LAMBDA r : r.year = yr)

\* data[data["Collection year"] <= yr]
filter_year(df, yr) == SelectSeq(df, LAMBDA r : r.year <= yr)

\* counts.rename(columns={'Hits': 'Hits '+str(yr), 'Total': 'Total '+str(yr)}):
\* the columns Hits yr and Total yr are the entries yr of the fields Hits and Total
rename(df, yr) ==
    AsSeq([k \in 1..Len(df) |->
        [Virus |-> df[k].Virus, taxid |-> df[k].taxid,
         Hits |-> [y \in {yr} |-> df[k].Hits], Total |-> [y \in {yr} |-> df[k].Total]]])

\* the year columns of a frame of the merge
YearsOf(df) == IF df = <<>> THEN {} ELSE DOMAIN df[1].Hits

\* the rows of left and right with the key (Virus, Virus Taxonomic ID) of row
SameKey(df, row) ==
    SelectSeq(df, LAMBDA r : r.taxid = row.taxid /\ r.Virus = row.Virus)

\* a merged row: the columns of l over lyears and of r over ryears, NaN where the
\* side has no row of the key
MergedRow(key, l, lyears, r, ryears) ==
    [Virus |-> key.Virus, taxid |-> key.taxid,
     Hits |-> [y \in lyears \cup ryears |->
                 IF y \in lyears THEN (IF l = <<>> THEN NaN ELSE l[1].Hits[y])
                 ELSE (IF r = <<>> THEN NaN ELSE r[1].Hits[y])],
     Total |-> [y \in lyears \cup ryears |->
                 IF y \in lyears THEN (IF l = <<>> THEN NaN ELSE l[1].Total[y])
                 ELSE (IF r = <<>> THEN NaN ELSE r[1].Total[y])]]

\* the rows of the join for one key: every pairing of the left rows and the right rows
\* of the key, a row of one side alone when the other has none and keep_unmatched
KeyRows(key, left, lyears, right, ryears, keep_unmatched) ==
    LET L == SameKey(left, key)
        R == SameKey(right, key)
    IN  IF L = <<>> /\ R = <<>> THEN <<>>
        ELSE IF L = <<>>
        THEN (IF keep_unmatched
              THEN [k \in 1..Len(R) |-> MergedRow(key, <<>>, lyears, <<R[k]>>, ryears)]
              ELSE <<>>)
        ELSE IF R = <<>>
        THEN (IF keep_unmatched
              THEN [k \in 1..Len(L) |-> MergedRow(key, <<L[k]>>, lyears, <<>>, ryears)]
              ELSE <<>>)
        ELSE [k \in 1..(Len(L) * Len(R)) |->
                MergedRow(key, <<L[((k - 1) \div Len(R)) + 1]>>, lyears,
                               <<R[((k - 1) % Len(R)) + 1]>>, ryears)]

RECURSIVE JoinKeys(_, _, _, _, _, _)
JoinKeys(keys, left, lyears, right, ryears, keep_unmatched) ==
    IF keys = {} THEN <<>>
    ELSE LET t == Min({k.taxid : k \in keys})
             key == CHOOSE k \in keys : k.taxid = t
         IN  KeyRows(key, left, lyears, right, ryears, keep_unmatched)
             \o JoinKeys(keys \ {key}, left, lyears, right, ryears, keep_unmatched)

KeysOf(df) == {[Virus |-> df[k].Virus, taxid |-> df[k].taxid] : k \in 1..Len(df)}

\* pd.merge(..., how='inner'): the keys of one side alone are dropped
merge_inner(left, lyears, right, ryears) ==
    JoinKeys(KeysOf(left) \cup KeysOf(right), left, lyears, right, ryears, FALSE)

\* pd.merge(left, right, on=['Virus', 'Virus Taxonomic ID'], how='outer'); the rows
\* come in the order of the keys
merge(left, lyears, right, ryears) ==
    JoinKeys(KeysOf(left) \cup KeysOf(right), left, lyears, right, ryears, TRUE)

\* combined_df.fillna(0)
fillna(df) ==
    AsSeq([k \in 1..Len(df) |->
        [df[k] EXCEPT !.Hits = [y \in DOMAIN @ |-> IF @[y] = NaN THEN 0 ELSE @[y]],
                      !.Total = [y \in DOMAIN @ |-> IF @[y] = NaN THEN 0 ELSE @[y]]]])

\* one iteration of "for yr in years": the collapsed counts of the records collected
\* up to yr, renamed
time_point(df, yr, target, live) ==
    LET c == collapse_data(count_data(filter_year(df, yr)), target, live)
    IN  [raised |-> c.raised, df |-> rename(c.df, yr), years |-> {yr}]

\* the loop "for tp in tps_data[1:]" from position k on
RECURSIVE merge_all(_, _, _)
merge_all(acc, tps_data, k) ==
    IF k > Len(tps_data) THEN acc
    ELSE merge_all([df |-> merge(acc.df, acc.years, tps_data[k].df, tps_data[k].years),
                    years |-> acc.years \cup tps_data[k].years],
                   tps_data, k + 1)

expand_data(df, yrs, target, live) ==
    LET tps_data == AsSeq([k \in 1..Len(yrs) |-> time_point(df, yrs[k], target, live)])
    IN  IF \E k \in 1..Len(yrs) : tps_data[k].raised # "none"
        THEN [raised |-> (CHOOSE e \in {tps_data[k].raised : k \in 1..Len(yrs)} : e # "none"),
              df |-> <<>>]
        ELSE IF tps_data = <<>> THEN [raised |-> "IndexError", df |-> <<>>]
        ELSE [raised |-> "none",
              df |-> fillna(merge_all([df |-> tps_data[1].df, years |-> tps_data[1].years],
                                      tps_data, 2).df)]

\* the collection years of the records and the years asked for
CollectionYears == {2010, 2011}
RequestYears == {2009, 2010, 2011}

\* the records of the expand driver
ExpandRecords ==
    {Record(t, y, h) : t \in KnownTaxids, y \in CollectionYears, h \in BOOLEAN}

\* a frame per multiset of records (count_data does not look at the order of the rows):
\* by taxid, then year, then Hit
RecordLe(a, b) ==
    \/ a.taxid < b.taxid
    \/ a.taxid = b.taxid /\ a.year < b.year
    \/ a.taxid = b.taxid /\ a.year = b.year /\ (a.Hit => b.Hit)

ExpandFrames ==
    UNION {{f \in Frames(n, ExpandRecords) :
                \A k \in 1..(Len(f) - 1) : RecordLe(f[k], f[k + 1])} :
           n \in 0..MaxExpandRecords}

\* the lists of distinct years (the column names 'Hits '+str(yr) are then distinct)
YearLists ==
    UNION {{l \in [1..n -> RequestYears] : \A i, j \in 1..n : i # j => l[i] # l[j]} :
           n \in 0..MaxYears}

\* the taxonomies of the expand driver: each taxon is below the root or below the
\* taxon before it
ExpandTaxonomies ==
    {f \in Taxonomies : \A t \in KnownTaxids \ {1} : f[t] \in {1, t - 1}}

InitExpand ==
    /\ pc = "start"
    /\ ncbi \in ExpandTaxonomies
    /\ target_taxid \in {1, 2}
    /\ counts = <<>>
    /\ collapsed = <<>>
    /\ recollapsed = <<>>
    /\ raised = "none"
    /\ data = <<>>
    /\ years = <<>>
    /\ combined_df = <<>>
    /\ arg = <<>>
    /\ ret = <<>>
    /\ csvfile = [written |-> FALSE, df |-> <<>>]

\* expand_data(data, years, target_taxid) is called
ExpandData ==
    /\ pc = "start"
    /\ \E df \in ExpandFrames, yrs \in YearLists, live \in BOOLEAN :
         LET r == expand_data(df, yrs, target_taxid, live)
         IN  /\ data' = df
             /\ years' = yrs
             /\ combined_df' = r.df
             /\ raised' = r.raised
    /\ pc' = "expanded"
    /\ UNCHANGED <<ncbi, target_taxid, counts, collapsed, recollapsed, arg, ret, csvfile>>

NextExpand == ExpandData

SpecExpand == InitExpand /\ [][NextExpand]_vars

\* the years of the list
YearSet == {years[k] : k \in 1..Len(years)}

\* what collapse_data returns for the records collected up to year y, for each year
\* of the list
CollapsedUpTo ==
    {[year |-> y,
      df |-> collapse_data(count_data(filter_year(data, y)), target_taxid, FALSE).df] :
        y \in YearSet}

\* C6: expand_data returns one row for every taxid that survives collapse in at least
\* one of the years, none dropped and none twice; its Hits Y and Total Y are 0 for a
\* year Y in which the taxid has no collapsed row, and that year's collapsed Hits and
\* Total otherwise.
C6_OuterJoinZeroFilled ==
    (pc = "expanded" /\ raised = "none") =>
        LET per_year == CollapsedUpTo
        IN  /\ TaxidsOf(combined_df) = UNION {TaxidsOf(c.df) : c \in per_year}
            /\ \A j, k \in 1..Len(combined_df) :
                 j # k => combined_df[j].taxid # combined_df[k].taxid
            /\ \A k \in 1..Len(combined_df) : \A c \in per_year :
                 LET rows == SelectSeq(c.df, LAMBDA r : r.taxid = combined_df[k].taxid)
                     y == c.year
                 IN  /\ y \in DOMAIN combined_df[k].Hits
                     /\ y \in DOMAIN combined_df[k].Total
                     /\ IF rows = <<>>
                        THEN combined_df[k].Hits[y] = 0 /\ combined_df[k].Total[y] = 0
                        ELSE /\ combined_df[k].Hits[y] = rows[1].Hits
                             /\ combined_df[k].Total[y] = rows[1].Total

\* a taxid has no collapsed row in the first year of the list and one in the second,
\* another has a row in both
C6_Witness ==
    /\ pc = "expanded"
    /\ raised = "none"
    /\ Len(years) = 2
    /\ Len(combined_df) = 2
    /\ \E j, k \in 1..2 :
          /\ combined_df[j].Total[years[1]] = 0
          /\ combined_df[j].Total[years[2]] > 0
          /\ combined_df[k].Total[years[1]] > 0
          /\ combined_df[k].Total[years[2]] > 0

\* the records collected up to year y that are counted under taxid c
RecordsUnder(c, y) ==
    {k \in 1..Len(data) :
        /\ data[k].year <= y
        /\ InSubtree(data[k].taxid)
        /\ CollapseTarget(data[k].taxid) = c}

\* C7: expand_data is cumulative: the columns of year Y count exactly the records
\* collected in or before Y, so Total and Hits do not decrease from a year to a later
\* one and are equal when no record was collected in between; the rows and their
\* entries are fixed by the records and the set of years, whatever the order of the list.
C7_CumulativeInYear ==
    (pc = "expanded" /\ raised = "none") =>
        /\ TaxidsOf(combined_df) =
              {c \in Taxids : \E y \in YearSet : RecordsUnder(c, y) # {}}
        /\ \A k \in 1..Len(combined_df) :
              /\ DOMAIN combined_df[k].Total = YearSet
              /\ DOMAIN combined_df[k].Hits = YearSet
        /\ \A k \in 1..Len(combined_df) : \A y \in YearSet :
             LET under == RecordsUnder(combined_df[k].taxid, y)
             IN  /\ combined_df[k].Total[y] = Cardinality(under)
                 /\ combined_df[k].Hits[y] = Cardinality({j \in under : data[j].Hit})
        /\ \A k \in 1..Len(combined_df) : \A y1, y2 \in YearSet :
             y1 <= y2 =>
                /\ combined_df[k].Total[y1] <= combined_df[k].Total[y2]
                /\ combined_df[k].Hits[y1] <= combined_df[k].Hits[y2]
                /\ (\A j \in 1..Len(data) : ~(y1 < data[j].year /\ data[j].year <= y2))
                     => /\ combined_df[k].Total[y1] = combined_df[k].Total[y2]
                        /\ combined_df[k].Hits[y1] = combined_df[k].Hits[y2]

\* the later year is listed first; a row grows from the earlier year to the later one
C7_Witness ==
    /\ pc = "expanded"
    /\ raised = "none"
    /\ Len(years) = 2
    /\ years[1] > years[2]
    /\ \E k \in 1..Len(combined_df) :
          /\ combined_df[k].Total[years[2]] > 0
          /\ combined_df[k].Total[years[2]] < combined_df[k].Total[years[1]]
          /\ combined_df[k].Hits[years[2]] < combined_df[k].Hits[years[1]]

----------------------------------------------------------------------------
(* get_accessions (validationtools) and parse_file (parse_simpcr) *)

\* most characters of a Full_Hit_ID value
MaxIdLen == 2
\* most rows of a simulate_PCR report
MaxHits == 2

RECURSIVE Strings(_, _)
\* the strings of n characters over the alphabet chars, as sequences of characters
Strings(n, chars) ==
    IF n = 0 THEN {<<>>}
    ELSE {Append(w, c) : w \in Strings(n - 1, chars), c \in chars}

\* a cell of a column read by pd.read_csv: a non-empty string, or missing (NaN)
Cell(s) == [na |-> FALSE, s |-> s]
NaCell == [na |-> TRUE, s |-> <<>>]

\* str(r)
str(r) == IF r.na THEN <<"n", "a", "n">> ELSE r.s

\* s.split(sep)[0]: the text before the first sep, all of s when it has none
split_first(s, sep) ==
    LET at == {k \in 1..Len(s) : s[k] = sep}
    IN  IF at = {} THEN s ELSE SubSeq(s, 1, Min(at) - 1)

\* DataFrame.drop_duplicates(subset=["Accession"], keep='first'): a new frame
drop_duplicates(acc) ==
    LET dup == {k \in 1..Len(acc) : \E j \in 1..(k - 1) : acc[j] = acc[k]}
    IN  DropPositions(acc, dup, 1)

\* get_accessions after pd.read_csv: column is data['Full_Hit_ID'].  The frame
\* drop_duplicates returns is not assigned; acc["Accession"].tolist() is returned
get_accessions(column) ==
    LET acc == AsSeq([k \in 1..Len(column) |-> split_first(str(column[k]), " ")])
        deduplicated == drop_duplicates(acc)
    IN  [raised |-> "none", ret |-> acc]

\* parse_file: get_accessions behind the check that the file exists
parse_file(exists, column) ==
    IF ~exists THEN [raised |-> "FileNotFoundError", ret |-> <<>>]
    ELSE LET acc == AsSeq([k \in 1..Len(column) |-> split_first(str(column[k]), " ")])
             deduplicated == drop_duplicates(acc)
         IN  [raised |-> "none", ret |-> acc]

HitIdCells ==
    {NaCell} \cup {Cell(w) : w \in UNION {Strings(n, {"A", "B", " "}) : n \in 1..MaxIdLen}}

InitAccessions ==
    /\ pc = "start"
    /\ ncbi = ChainTaxonomy
    /\ target_taxid = 1
    /\ counts = <<>>
    /\ collapsed = <<>>
    /\ recollapsed = <<>>
    /\ raised = "none"
    /\ data = <<>>
    /\ years = <<>>
    /\ combined_df = <<>>
    /\ arg = <<>>
    /\ ret = <<>>
    /\ csvfile = [written |-> FALSE, df |-> <<>>]

\* get_accessions(filepath), the Full_Hit_ID column of the file being column
GetAccessions ==
    /\ pc = "start"
    /\ \E column \in UNION {Frames(n, HitIdCells) : n \in 0..MaxHits} :
         LET r == get_accessions(column)
         IN  /\ arg' = column
             /\ ret' = r.ret
             /\ raised' = r.raised
    /\ pc' = "get_accessions"
    /\ UNCHANGED <<ncbi, target_taxid, counts, collapsed, recollapsed, data, years,
                   combined_df, csvfile>>

\* parse_file(filepath)
ParseFile ==
    /\ pc = "start"
    /\ \E exists \in BOOLEAN, column \in UNION {Frames(n, HitIdCells) : n \in 0..MaxHits} :
         LET r == parse_file(exists, column)
         IN  /\ arg' = column
             /\ ret' = r.ret
             /\ raised' = r.raised
    /\ pc' = "parse_file"
    /\ UNCHANGED <<ncbi, target_taxid, counts, collapsed, recollapsed, data, years,
                   combined_df, csvfile>>

NextAccessions == GetAccessions \/ ParseFile

SpecAccessions == InitAccessions /\ [][NextAccessions]_vars

\* C8: the accession list built from a simulate_PCR report is deduplicated: an
\* accession that is the leading token of several Full_Hit_ID values occurs once.
C8_AccessionsDeduplicated ==
    (pc \in {"get_accessions", "parse_file"} /\ raised = "none") =>
        \A j, k \in 1..Len(ret) : j # k => ret[j] # ret[k]

----------------------------------------------------------------------------
(* datasets_get_year and assess_data *)

\* most characters of a date value
MaxDateLen == 3

\* a date value: the object np.NaN itself, another missing value (a NaN that is not
\* that object), or a string
NpNaN == [kind |-> "np.NaN", s |-> <<>>]
OtherNaN == [kind |-> "nan", s |-> <<"n", "a", "n">>]
DateString(s) == [kind |-> "str", s |-> s]

Digits == {"1", "2"}
DigitValue(c) == IF c = "1" THEN 1 ELSE 2

\* s without its leading and trailing blanks
RECURSIVE strip(_)
strip(s) ==
    IF s = <<>> THEN s
    ELSE IF Head(s) = " " THEN strip(Tail(s))
    ELSE IF s[Len(s)] = " " THEN strip(SubSeq(s, 1, Len(s) - 1))
    ELSE s

RECURSIVE DecimalValue(_)
DecimalValue(s) ==
    IF s = <<>> THEN 0
    ELSE 10 * DecimalValue(SubSeq(s, 1, Len(s) - 1)) + DigitValue(s[Len(s)])

\* int(s): the number, or ValueError when s is not a decimal numeral
int(s) ==
    LET t == strip(s)
    IN  IF t # <<>> /\ \A k \in 1..Len(t) : t[k] \in Digits
        THEN [raised |-> "none", nan |-> FALSE, v |-> DecimalValue(t)]
        ELSE [raised |-> "ValueError", nan |-> FALSE, v |-> 0]

\* datasets_get_year: "date is not np.NaN" is a test of object identity
datasets_get_year(date) ==
    IF date.kind # "np.NaN"
    THEN int(split_first(date.s, "-"))
    ELSE [raised |-> "none", nan |-> TRUE, v |-> 0]

\* assess_data on a frame of one row: Hit, Collection year, Release year
assess_data(row, pcr_acc) ==
    LET hit == \E k \in 1..Len(pcr_acc) : pcr_acc[k] = row.Accession
        collection == datasets_get_year(row.collection_date)
        release == datasets_get_year(row.release_date)
    IN  IF collection.raised # "none" THEN [raised |-> collection.raised, ret |-> <<>>]
        ELSE IF release.raised # "none" THEN [raised |-> release.raised, ret |-> <<>>]
        ELSE [raised |-> "none",
              ret |-> <<[Accession |-> row.Accession, Hit |-> hit,
                         collection_year |-> [nan |-> collection.nan, v |-> collection.v],
                         release_year |-> [nan |-> release.nan, v |-> release.v]]>>]

Dates ==
    {NpNaN, OtherNaN} \cup
    {DateString(w) : w \in UNION {Strings(n, {"1", "2", "-", "x", " "}) : n \in 1..MaxDateLen}}

\* the dates of the rows handed to assess_data
RowDates ==
    {NpNaN, OtherNaN, DateString(<<"1", "2", "-", "1">>), DateString(<<"x">>),
     DateString(<<"2", "1">>)}

InitYear ==
    /\ pc = "start"
    /\ ncbi = ChainTaxonomy
    /\ target_taxid = 1
    /\ counts = <<>>
    /\ collapsed = <<>>
    /\ recollapsed = <<>>
    /\ raised = "none"
    /\ data = <<>>
    /\ years = <<>>
    /\ combined_df = <<>>
    /\ arg = <<>>
    /\ ret = <<>>
    /\ csvfile = [written |-> FALSE, df |-> <<>>]

\* datasets_get_year(date)
GetYear ==
    /\ pc = "start"
    /\ \E date \in Dates :
         LET r == datasets_get_year(date)
         IN  /\ arg' = date
             /\ ret' = [nan |-> r.nan, v |-> r.v]
             /\ raised' = r.raised
    /\ pc' = "datasets_get_year"
    /\ UNCHANGED <<ncbi, target_taxid, counts, collapsed, recollapsed, data, years,
                   combined_df, csvfile>>

\* assess_data(data, pcr_acc)
AssessData ==
    /\ pc = "start"
    /\ \E accession \in {"A", "B"}, c \in RowDates, r \in RowDates,
          pcr_acc \in {<<>>, <<"A">>} :
         LET row == [Accession |-> accession, collection_date |-> c, release_date |-> r]
             a == assess_data(row, pcr_acc)
         IN  /\ arg' = [row |-> row, pcr_acc |-> pcr_acc]
             /\ ret' = a.ret
             /\ raised' = a.raised
    /\ pc' = "assess_data"
    /\ UNCHANGED <<ncbi, target_taxid, counts, collapsed, recollapsed, data, years,
                   combined_df, csvfile>>

NextYear == GetYear \/ AssessData

SpecYear == InitYear /\ [][NextYear]_vars

\* a date string whose text before the first '-' is a decimal numeral (blanks around
\* it allowed)
WellFormed(date) ==
    /\ date.kind = "str"
    /\ LET t == strip(split_first(date.s, "-"))
       IN  t # <<>> /\ \A k \in 1..Len(t) : t[k] \in Digits

\* C9: datasets_get_year never raises: a well-formed date gives the integer before the
\* first '-', an absent date (any missing value) or a malformed date string gives the
\* unknown-year value.
C9_YearNeverRaises ==
    pc = "datasets_get_year" =>
        /\ raised = "none"
        /\ IF WellFormed(arg)
           THEN ~ret.nan /\ ret.v = DecimalValue(strip(split_first(arg.s, "-")))
           ELSE ret.nan

----------------------------------------------------------------------------
(* get_ratio *)

\* most entries of the lists handed to get_ratio
MaxLen == 2
\* largest entry of the lists
MaxValue == 2

RECURSIVE gcd(_, _)
gcd(a, b) == IF b = 0 THEN a ELSE gcd(b, a % b)

\* elem1 / elem2 of Python on non-negative numbers: the quotient as a fraction in
\* lowest terms, ZeroDivisionError when elem2 is 0
true_div(elem1, elem2) ==
    IF elem2 = 0 THEN [raised |-> "ZeroDivisionError", nan |-> FALSE, num |-> 0, den |-> 0]
    ELSE [raised |-> "none", nan |-> FALSE,
          num |-> elem1 \div gcd(elem1, elem2), den |-> elem2 \div gcd(elem1, elem2)]

\* the body of the loop without the test of the denominator
ratio_unguarded(elem1, elem2) == true_div(elem1, elem2)

\* the body of "for elem1, elem2 in zip(hits, totals)": the entry appended to ratios
ratio(elem1, elem2) ==
    IF elem2 # 0 THEN true_div(elem1, elem2)
    ELSE [raised |-> "none", nan |-> TRUE, num |-> 0, den |-> 0]

get_ratio(hits, totals) ==
    IF Len(hits) # Len(totals) THEN [raised |-> "none", none |-> TRUE, ratios |-> <<>>]
    ELSE LET ratios == AsSeq([k \in 1..Len(hits) |-> ratio(hits[k], totals[k])])
         IN  IF \E k \in 1..Len(ratios) : ratios[k].raised # "none"
             THEN [raised |-> "ZeroDivisionError", none |-> TRUE, ratios |-> <<>>]
             ELSE [raised |-> "none", none |-> FALSE,
                   ratios |-> AsSeq([k \in 1..Len(ratios) |->
                                [nan |-> ratios[k].nan, num |-> ratios[k].num,
                                 den |-> ratios[k].den]])]

NumberLists == UNION {[1..n -> 0..MaxValue] : n \in 0..MaxLen}

InitRatio ==
    /\ pc = "start"
    /\ ncbi = ChainTaxonomy
    /\ target_taxid = 1
    /\ counts = <<>>
    /\ collapsed = <<>>
    /\ recollapsed = <<>>
    /\ raised = "none"
    /\ data = <<>>
    /\ years = <<>>
    /\ combined_df = <<>>
    /\ arg = <<>>
    /\ ret = <<>>
    /\ csvfile = [written |-> FALSE, df |-> <<>>]

\* get_ratio(hits, totals)
GetRatio ==
    /\ pc = "start"
    /\ \E hits \in NumberLists, totals \in NumberLists :
         LET r == get_ratio(hits, totals)
         IN  /\ arg' = [hits |-> hits, totals |-> totals]
             /\ ret' = [none |-> r.none, ratios |-> r.ratios]
             /\ raised' = r.raised
    /\ pc' = "get_ratio"
    /\ UNCHANGED <<ncbi, target_taxid, counts, collapsed, recollapsed, data, years,
                   combined_df, csvfile>>

NextRatio == GetRatio

SpecRatio == InitRatio /\ [][NextRatio]_vars

\* C10: get_ratio returns None when the lists differ in length; otherwise a list of
\* the same length whose entry i is hits[i] / totals[i] when totals[i] is not 0 and the
\* undefined marker (NaN) when it is 0; it never raises a division fault.
C10_RatioOrNone ==
    pc = "get_ratio" =>
        /\ raised = "none"
        /\ ret.none <=> Len(arg.hits) # Len(arg.totals)
        /\ ret.none => ret.ratios = <<>>
        /\ ~ret.none =>
             /\ Len(ret.ratios) = Len(arg.hits)
             /\ \A k \in 1..Len(ret.ratios) :
                  IF arg.totals[k] # 0
                  THEN /\ ~ret.ratios[k].nan
                       /\ ret.ratios[k].den > 0
                       /\ ret.ratios[k].num * arg.totals[k] = arg.hits[k] * ret.ratios[k].den
                  ELSE ret.ratios[k].nan

\* the lists of spec.md: a quotient and an undefined entry
C10_Witness ==
    /\ pc = "get_ratio"
    /\ Len(arg.totals) = 2
    /\ Len(arg.hits) = 2
    /\ arg.totals[1] = 2 /\ arg.hits[1] = 1
    /\ arg.totals[2] = 0 /\ arg.hits[2] = 0
    /\ ret.ratios = <<[nan |-> FALSE, num |-> 1, den |-> 2], [nan |-> TRUE, num |-> 0, den |-> 0]>>

----------------------------------------------------------------------------
(* The command-line pipeline (validate_assay.py).  It has its own copies of  *)
(* find_collapse_to and collapse_data; its count_data, valid_taxid and       *)
(* find_target read the same as those of validationtools.py, and so do the   *)
(* statements of its collapse_data after the loop, so the operators above    *)
(* stand for them too.                                                       *)

\* most rows of the datasets file
MaxIsolates == 2
\* most lines of the file of hit accessions
MaxPcrLines == 1

\* validate_assay.find_collapse_to with the taxon whose lineage does not hold the
\* target sent to NaN, as an unknown taxon is
validate_assay_find_collapse_to_discard(taxid, target) ==
    IF ~valid_taxid(taxid) THEN NaN
    ELSE LET lineage == get_lineage(taxid).lineage
             index == find_target(lineage, target)
         IN  IF index = -1 THEN NaN
             ELSE IF index + 1 >= Len(lineage) THEN taxid
             ELSE lineage[(index + 1) + 1]

\* validate_assay.find_collapse_to: a taxon whose lineage does not hold the target is
\* sent to itself
validate_assay_find_collapse_to(taxid, target) ==
    IF ~valid_taxid(taxid) THEN NaN
    ELSE LET lineage == get_lineage(taxid).lineage
             index == find_target(lineage, target)
         IN  IF index = -1 THEN taxid
             ELSE IF index + 1 >= Len(lineage) THEN taxid
             ELSE lineage[(index + 1) + 1]

\* df["Collapsed TaxID"] = df["Virus Taxonomic ID"].apply(collapse_to)
validate_assay_apply_collapse_to(df, target) ==
    AsSeq([k \in 1..Len(df) |->
            [df[k] EXCEPT !.Collapsed = validate_assay_find_collapse_to(df[k].taxid, target)]])

\* one iteration of the loop of validate_assay.collapse_data: it has no branch for
\* a sentinel, a row is either folded into the row of its collapse taxid or left alone
validate_assay_loop_body(st, k, snap, live) ==
    LET row == IF live THEN st.iter[k] ELSE snap[k]
    IN  IF Ne(row.Collapsed, row.taxid)
        THEN LET matching_row == {j \in 1..Len(st.df) : Eq(st.df[j].taxid, row.Collapsed)}
             IN  IF matching_row # {}
                 THEN LET df2 == add_to_matching(st.df, Min(matching_row), row)
                      IN  [df |-> df2,
                           iter |-> IF st.rebound THEN st.iter ELSE df2,
                           rebound |-> st.rebound,
                           del |-> st.del \cup {k}]
                 ELSE [df |-> concat_new_row(st.df, row),
                       iter |-> st.iter,
                       rebound |-> TRUE,
                       del |-> st.del \cup {k}]
        ELSE st

RECURSIVE validate_assay_loop(_, _, _, _)
validate_assay_loop(st, k, snap, live) ==
    IF k > Len(snap) THEN st
    ELSE validate_assay_loop(validate_assay_loop_body(st, k, snap, live), k + 1, snap, live)

validate_assay_collapse_data(df, target, live) ==
    LET df1 == validate_assay_apply_collapse_to(df, target)
        st == validate_assay_loop([df |-> df1, iter |-> df1, rebound |-> FALSE, del |-> {}],
                                  1, df1, live)
    IN  finish(dropna(drop(st.df, st.del)))

\* parse_acc: the lines of the file, each stripped of the white space around it
parse_acc(lines) == AsSeq([k \in 1..Len(lines) |-> strip(lines[k])])

\* a row of the datasets file
DatasetRow(accession, host, date, taxid) ==
    [Accession |-> accession, Host |-> host, date |-> date, taxid |-> taxid]

\* load_data after pd.read_csv: the rows of a human host that have a collection date,
\* with the columns Accession, Virus Taxonomic ID and Hit
load_data(file, pcr_acc) ==
    LET human == SelectSeq(file, LAMBDA r : r.Host = 9606)
        dated == SelectSeq(human, LAMBDA r : ~r.date.na)
    IN  AsSeq([k \in 1..Len(dated) |->
            [Accession |-> dated[k].Accession,
             taxid |-> dated[k].taxid,
             Hit |-> \E j \in 1..Len(pcr_acc) : pcr_acc[j] = dated[k].Accession]])

\* save_tsv: the table is written to the file
save_tsv(df) == [written |-> TRUE, df |-> df]

\* main after the arguments are parsed.  create_tree and save_tree draw the tree with
\* ete3 between collapse_data and save_tsv; rendered tells whether they returned, the
\* table is not written when they raised
main(file, lines, target, live, rendered) ==
    LET pcr_acc == parse_acc(lines)
        loaded == load_data(file, pcr_acc)
        counted == count_data(loaded)
        r == validate_assay_collapse_data(counted, target, live)
        unwritten == [written |-> FALSE, df |-> <<>>]
    IN  IF r.raised # "none"
        THEN [raised |-> r.raised, data |-> loaded, counts |-> counted, csvfile |-> unwritten]
        ELSE IF ~rendered
        THEN [raised |-> "Exception", data |-> loaded, counts |-> counted, csvfile |-> unwritten]
        ELSE [raised |-> "none", data |-> loaded, counts |-> counted, csvfile |-> save_tsv(r.df)]

\* the rows of the datasets files tried: two accessions; a human host with a date, a
\* human host without one, another host
DatasetRows ==
    {DatasetRow(a, h[1], h[2], t) :
        a \in {<<"A">>, <<"B">>},
        h \in {<<9606, Cell(<<"1">>)>>, <<9606, NaCell>>, <<9913, Cell(<<"1">>)>>},
        t \in KnownTaxids}

\* the place of a row in an order of the rows
RowRank(r) ==
    6 * r.taxid + (IF r.Accession = <<"A">> THEN 0 ELSE 3)
      + (IF r.Host # 9606 THEN 2 ELSE IF r.date.na THEN 1 ELSE 0)

\* a file per multiset of rows (count_data does not look at the order of the rows)
DatasetFiles ==
    UNION {{f \in Frames(n, DatasetRows) :
                \A k \in 1..(Len(f) - 1) : RowRank(f[k]) <= RowRank(f[k + 1])} :
           n \in 0..MaxIsolates}

\* the files of hit accessions tried: no line twice, the line of A before that of B
\* (load_data asks only whether an accession is among the lines)
PcrFiles ==
    {f \in UNION {Frames(n, {<<"A">>, <<" ", "B", " ">>}) : n \in 0..MaxPcrLines} :
        \A k \in 1..(Len(f) - 1) : Len(f[k]) < Len(f[k + 1])}

InitMain ==
    /\ pc = "start"
    /\ ncbi \in ExpandTaxonomies
    /\ target_taxid \in {1, 2}
    /\ counts = <<>>
    /\ collapsed = <<>>
    /\ recollapsed = <<>>
    /\ raised = "none"
    /\ data = <<>>
    /\ years = <<>>
    /\ combined_df = <<>>
    /\ arg = <<>>
    /\ ret = <<>>
    /\ csvfile = [written |-> FALSE, df |-> <<>>]

\* the command-line pipeline runs; counts is the table count_data returned to it
Main ==
    /\ pc = "start"
    /\ \E file \in DatasetFiles, lines \in PcrFiles, live \in BOOLEAN, rendered \in BOOLEAN :
         LET r == main(file, lines, target_taxid, live, rendered)
         IN  /\ data' = r.data
             /\ counts' = r.counts
             /\ raised' = r.raised
             /\ csvfile' = r.csvfile
    /\ pc' = "main"
    /\ UNCHANGED <<ncbi, target_taxid, collapsed, recollapsed, years, combined_df, arg, ret>>

\* validationtools.collapse_data is called on the same table of counts
MainCollapseData ==
    /\ pc = "main"
    /\ \E live \in BOOLEAN :
         LET r == collapse_data(counts, target_taxid, live)
         IN  /\ collapsed' = r.df
             /\ raised' = r.raised
    /\ pc' = "collapsed"
    /\ UNCHANGED <<ncbi, target_taxid, counts, recollapsed, data, years, combined_df,
                   arg, ret, csvfile>>

NextMain == Main \/ MainCollapseData

SpecMain == InitMain /\ [][NextMain]_vars

\* the rows of the table of counts whose taxon has a lineage without the target
OutOfSubtree == SelectSeq(counts, LAMBDA r : r.taxid \in DOMAIN ncbi /\ ~InSubtree(r.taxid))

\* C11: the collapse of the command-line pipeline (validate_assay.collapse_data, called
\* from main) does not discard a taxon whose lineage does not contain the target: the
\* table the pipeline writes has exactly one row of that taxon, with the Total and the
\* Hits count_data gave it; validationtools.collapse_data, given the same counts,
\* returns no row of such a taxon.
C11_EarlierCollapseKeepsOutOfSubtree ==
    /\ (pc \in {"main", "collapsed"} /\ csvfile.written) =>
          \A k \in 1..Len(OutOfSubtree) :
             LET r == OutOfSubtree[k]
                 kept == {j \in 1..Len(csvfile.df) : csvfile.df[j].taxid = r.taxid}
             IN  /\ Cardinality(kept) = 1
                 /\ \A j \in kept : /\ csvfile.df[j].Total = r.Total
                                    /\ csvfile.df[j].Hits = r.Hits
    /\ pc = "collapsed" =>
          /\ raised = "none"
          /\ \A k \in 1..Len(OutOfSubtree) : OutOfSubtree[k].taxid \notin TaxidsOf(collapsed)

\* the pipeline wrote a table with a row that is neither the target nor a direct child
\* of the target, a hit isolate counted in it, and validationtools.collapse_data
\* returned a table of one row, without that taxon
C11_Witness ==
    /\ pc = "collapsed"
    /\ csvfile.written
    /\ \E j \in 1..Len(csvfile.df) :
         /\ csvfile.df[j].taxid # target_taxid
         /\ ~IsDirectChild(csvfile.df[j].taxid)
         /\ csvfile.df[j].Total = 1
         /\ csvfile.df[j].Hits = 1
         /\ csvfile.df[j].taxid \notin TaxidsOf(collapsed)
    /\ Len(collapsed) = 1

====
